---- MODULE Spec2Model ----
(***************************************************************************)
(* AbhiScript backend: the transcription orchestrator                      *)
(* (TranscriptionService), the speaker resolver                            *)
(* (SpeakerIdentificationService), the upload service and the two routers  *)
(* that start orchestration runs, over the Prisma tables Recording and     *)
(* Transcript.                                                             *)
(*                                                                         *)
(* Representation choices:                                                 *)
(*  - a text is the sequence of its space-separated tokens, so that        *)
(*    `currentSegment += word.text + ' '` followed by trim() is Append;    *)
(*  - a number of seconds obtained from milliseconds is the pair           *)
(*    [sec, ms] of whole seconds and remaining thousandths;                *)
(*  - an optional value is a sequence of length 0 or 1, and an absent      *)
(*    string field is the value None;                                      *)
(*  - JSON text is a sequence of tokens.                                   *)
(***************************************************************************)
EXTENDS Integers, Sequences, FiniteSets, TLC

VARIABLES
  recordings,   \* table Recording: set of rows [id, status, duration]
  transcripts,  \* table Transcript: set of rows
  files,        \* ids of the recordings whose uploaded file is on disk
  uploads,      \* POST /upload handlers between create and status update
  triggers,     \* POST /upload/:id/transcribe handlers after getRecording
  deletes,      \* deleteRecording calls that have unlinked the file
  runs,         \* transcribeAudio runs, in order of start
  idents,       \* reIdentifySpeakers calls, in order of start
  openaiKey,    \* process.env.OPENAI_API_KEY is set
  nextRecording,\* number of recordings created so far
  reads,        \* the calls made that only read, with what each returned
  lastDelete,   \* the last deleteTranscription call and what it returned
  resp,         \* normalizer: the provider response being parsed
  segs,         \* normalizer: the segments returned
  npc,          \* normalizer: "idle", "ready", "loop" or "done"
  wloop         \* normalizer: the index and the variables of the loop over words

vars == <<recordings, transcripts, files, uploads, triggers, deletes, runs,
          idents, openaiKey, nextRecording, reads, lastDelete, resp, segs, npc,
          wloop>>

sysVars == <<recordings, transcripts, files, uploads, triggers, deletes, runs,
             idents, openaiKey, nextRecording, reads, lastDelete>>

normVars == <<resp, segs, npc, wloop>>

(***************************************************************************)
(* Bounds                                                                  *)
(***************************************************************************)
MaxUtterances == 2
MaxShortWords == 3
MaxLongWords == 101

(***************************************************************************)
(* Values                                                                  *)
(***************************************************************************)
None == "<undefined>"

\* JavaScript truthiness of an optional string
Truthy(s) == s # None /\ s # ""

Div1000(ms) == [sec |-> ms \div 1000, ms |-> ms % 1000]

Seconds(n) == [sec |-> n, ms |-> 0]

ToMs(t) == t.sec * 1000 + t.ms

SegmentCap == 50

\* the last character of each word text the model uses
LastChar(t) ==
  CASE t = "hi" -> "i"
    [] t = "hello" -> "o"
    [] t = "ok." -> "."
    [] t = "why?" -> "?"
    [] t = "no!" -> "!"
    [] OTHER -> "x"

\* word.text.match(/[.!?]$/)
EndsSentence(t) == LastChar(t) \in {".", "!", "?"}

\* word.speaker ? `Speaker ${word.speaker}` : undefined
SpeakerTag(speaker) == IF Truthy(speaker) THEN "Speaker " \o speaker ELSE None

(***************************************************************************)
(* Segment normalizer: parseAssemblyAISegmentsWithSpeakers                 *)
(***************************************************************************)
\* UtteranceToSegment without the conversion of milliseconds to seconds
UtteranceToSegmentInMs(utterance) ==
  [start |-> Seconds(utterance.start),
   end |-> Seconds(utterance.end),
   text |-> utterance.text,
   speaker |-> SpeakerTag(utterance.speaker)]

UtteranceToSegment(utterance) ==
  [start |-> Div1000(utterance.start),
   end |-> Div1000(utterance.end),
   text |-> utterance.text,
   speaker |-> SpeakerTag(utterance.speaker)]

UtterancesToSegments(utterances) ==
  [i \in 1..Len(utterances) |-> UtteranceToSegment(utterances[i])]

\* i0 > 0 && i0 % 50 === 0, i0 the zero-based index of the word
CapReached(i0) == i0 > 0 /\ i0 % SegmentCap = 0

\* one iteration of the loop over transcript.words; i is the one-based index
WordStep(words, i, st) ==
  LET word == words[i]
      i0 == i - 1
      first == IF i0 = 0
               THEN [st EXCEPT !.segmentStart = Div1000(word.start),
                               !.currentSpeaker = SpeakerTag(word.speaker)]
               ELSE st
      wordSpeaker == SpeakerTag(word.speaker)
      speakerChanged == wordSpeaker # first.currentSpeaker
      currentSegment == Append(first.currentSegment, word.text)
      closes == \/ speakerChanged
                \/ EndsSentence(word.text)
                \/ CapReached(i0)
                \/ i0 = Len(words) - 1
      segment == [start |-> first.segmentStart,
                  end |-> Div1000(word.end),
                  text |-> currentSegment,
                  speaker |-> IF Truthy(first.currentSpeaker)
                              THEN first.currentSpeaker ELSE None]
  IN  IF ~closes
      THEN [first EXCEPT !.currentSegment = currentSegment]
      ELSE IF speakerChanged
      THEN [segments |-> Append(first.segments, segment),
            currentSegment |-> <<word.text>>,
            segmentStart |-> Div1000(word.start),
            currentSpeaker |-> wordSpeaker]
      ELSE IF i0 < Len(words) - 1
      THEN [segments |-> Append(first.segments, segment),
            currentSegment |-> <<>>,
            segmentStart |-> Div1000(words[i + 1].start),
            currentSpeaker |-> SpeakerTag(words[i + 1].speaker)]
      ELSE [first EXCEPT !.segments = Append(first.segments, segment),
                         !.currentSegment = <<>>]

RECURSIVE WordLoop(_, _, _)
WordLoop(words, i, st) ==
  IF i > Len(words) THEN st.segments
  ELSE WordLoop(words, i + 1, WordStep(words, i, st))

\* the variables of the loop before its first iteration
LoopStart ==
  [segments |-> <<>>, currentSegment |-> <<>>,
   segmentStart |-> Seconds(0), currentSpeaker |-> None]

WordsToSegments(words) == WordLoop(words, 1, LoopStart)

parseAssemblyAISegmentsWithSpeakers(transcript) ==
  IF transcript.hasUtterances
  THEN UtterancesToSegments(transcript.utterances)
  ELSE IF transcript.hasWords
  THEN WordsToSegments(transcript.words)
  ELSE <<[start |-> Seconds(0),
          end |-> Seconds(transcript.audio_duration),
          text |-> transcript.text,
          speaker |-> None]>>

\* new Set(segments.map(s => s.speaker).filter(Boolean)).size
SpeakerCount(segments) ==
  Cardinality({segments[i].speaker : i \in {j \in 1..Len(segments) :
                                            Truthy(segments[j].speaker)}})

(***************************************************************************)
(* Provider responses given to the normalizer                              *)
(***************************************************************************)
UtteranceSamples ==
  {[start |-> 0, end |-> 2000, text |-> <<"hi">>, speaker |-> "A"],
   [start |-> 2000, end |-> 4000, text |-> <<"hello">>, speaker |-> "B"],
   [start |-> 1500, end |-> 2750, text |-> <<>>, speaker |-> None],
   [start |-> 4000, end |-> 4001, text |-> <<"ok.", "hi">>, speaker |-> ""]}

RECURSIVE SeqsUpTo(_, _)
SeqsUpTo(S, n) ==
  IF n = 0 THEN {<<>>}
  ELSE LET shorter == SeqsUpTo(S, n - 1)
       IN  shorter \cup {Append(s, x) : s \in {t \in shorter : Len(t) = n - 1},
                                        x \in S}

\* the j-th word of a list lasts 300 ms and starts 400 ms after the previous one
WordAt(j, text, speaker) ==
  [start |-> (j - 1) * 400, end |-> (j - 1) * 400 + 300,
   text |-> text, speaker |-> speaker]

WordKinds == {"hi", "ok."} \X {"A", "B", None}

ShortWordLists ==
  {[j \in 1..Len(ks) |-> WordAt(j, ks[j][1], ks[j][2])] :
     ks \in SeqsUpTo(WordKinds, MaxShortWords)}

\* n words without punctuation, all of one speaker
PlainWords(n, speaker) == [j \in 1..n |-> WordAt(j, "hi", speaker)]

LongWordLists ==
  {PlainWords(n, s) : n \in 1..MaxLongWords, s \in {"A", None}}

Response(hasU, us, hasW, ws, text, duration) ==
  [hasUtterances |-> hasU, utterances |-> us, hasWords |-> hasW, words |-> ws,
   text |-> text, audio_duration |-> duration]

NormInputs ==
  {Response(TRUE, us, hasW, IF hasW THEN PlainWords(2, "A") ELSE <<>>,
            <<"hi">>, 4) :
     us \in SeqsUpTo(UtteranceSamples, MaxUtterances), hasW \in BOOLEAN}
  \cup {Response(FALSE, <<>>, TRUE, ws, <<"hi">>, 4) :
          ws \in ShortWordLists \cup LongWordLists}
  \cup {Response(FALSE, <<>>, FALSE, <<>>, text, d) :
          text \in {<<>>, <<"hi", "hello">>}, d \in {0, 4}}

IdleResponse == Response(FALSE, <<>>, FALSE, <<>>, <<>>, 0)

(***************************************************************************)
(* JSON text of a speaker mapping: JSON.parse and JSON.stringify           *)
(***************************************************************************)
\* a parsed value: an object is the sequence of its members, in insertion
\* order; null and arrays are values too
JsObject(members) == [kind |-> "object", members |-> members]

JsNull == [kind |-> "null", members |-> <<>>]

JsArray(items) == [kind |-> "array", members |-> items]

\* obj[key] = value: an existing key keeps its position
SetMember(members, key, value) ==
  IF \E i \in 1..Len(members) : members[i][1] = key
  THEN [i \in 1..Len(members) |->
          IF members[i][1] = key THEN <<key, value>> ELSE members[i]]
  ELSE Append(members, <<key, value>>)

\* the members `key : value , key : value ...` between the braces
RECURSIVE ParseMembers(_, _, _)
ParseMembers(tokens, at, members) ==
  IF at + 2 > Len(tokens) \/ tokens[at + 1] # ":"
     \/ tokens[at] \in {"{", "}", "[", "]", ":", ","}
     \/ tokens[at + 2] \in {"{", "}", "[", "]", ":", ","}
  THEN [ok |-> FALSE, members |-> <<>>]
  ELSE LET now == SetMember(members, tokens[at], tokens[at + 2])
       IN  IF at + 2 = Len(tokens) THEN [ok |-> TRUE, members |-> now]
           ELSE IF tokens[at + 3] # "," THEN [ok |-> FALSE, members |-> <<>>]
           ELSE ParseMembers(tokens, at + 4, now)

\* JSON.parse(text): ok is FALSE where JSON.parse throws a SyntaxError
JsonParse(text) ==
  LET n == Len(text)
      inner == SubSeq(text, 2, n - 1)
  IN  IF text = <<"null">> THEN [ok |-> TRUE, value |-> JsNull]
      ELSE IF n >= 2 /\ text[1] = "{" /\ text[n] = "}"
      THEN IF n = 2 THEN [ok |-> TRUE, value |-> JsObject(<<>>)]
           ELSE LET m == ParseMembers(inner, 1, <<>>)
                IN  [ok |-> m.ok, value |-> JsObject(m.members)]
      ELSE IF n >= 2 /\ text[1] = "[" /\ text[n] = "]"
              /\ \A i \in 2..(n - 1) : (i % 2 = 1) = (text[i] = ",")
              /\ (n = 2 \/ n % 2 = 1)
      THEN [ok |-> TRUE,
            value |-> JsArray([i \in 1..((n - 1) \div 2) |-> inner[2 * i - 1]])]
      ELSE [ok |-> FALSE, value |-> JsNull]

RECURSIVE MemberTokens(_, _)
MemberTokens(members, i) ==
  IF i > Len(members) THEN <<>>
  ELSE (IF i > 1 THEN <<",">> ELSE <<>>)
       \o <<members[i][1], ":", members[i][2]>> \o MemberTokens(members, i + 1)

RECURSIVE ItemTokens(_, _)
ItemTokens(items, i) ==
  IF i > Len(items) THEN <<>>
  ELSE (IF i > 1 THEN <<",">> ELSE <<>>) \o <<items[i]>> \o ItemTokens(items, i + 1)

\* JsonStringify that writes only the first member of an object
JsonStringifyFirst(value) ==
  CASE value.kind = "object" ->
         <<"{">> \o MemberTokens(SubSeq(value.members, 1, 1), 1) \o <<"}">>
    [] value.kind = "array" -> <<"[">> \o ItemTokens(value.members, 1) \o <<"]">>
    [] OTHER -> <<"null">>

\* JSON.stringify(value)
JsonStringify(value) ==
  CASE value.kind = "object" -> <<"{">> \o MemberTokens(value.members, 1) \o <<"}">>
    [] value.kind = "array" -> <<"[">> \o ItemTokens(value.members, 1) \o <<"]">>
    [] OTHER -> <<"null">>

(***************************************************************************)
(* Bounds of the system                                                    *)
(***************************************************************************)
MaxRecordings == 1
\* transcribeAudio runs, reIdentifySpeakers calls and read-side calls
\* started, together
MaxCalls == 2

RecIds == 1..MaxRecordings

Calls == Len(runs) + Len(idents) + Len(reads)

(***************************************************************************)
(* Tables                                                                  *)
(***************************************************************************)
RecExists(r) == \E row \in recordings : row.id = r

RecordingOf(r) == CHOOSE row \in recordings : row.id = r

StatusOf(r) == RecordingOf(r).status

TranscriptsOf(r) == {t \in transcripts : t.recordingId = r}

HasTranscript(r) == TranscriptsOf(r) # {}

\* prisma.recording.update({ where: { id }, data: { status } })
WithStatus(rows, r, status) ==
  {IF row.id = r THEN [row EXCEPT !.status = status] ELSE row : row \in rows}

WithDuration(rows, r, duration) ==
  {IF row.id = r THEN [row EXCEPT !.duration = duration] ELSE row : row \in rows}

\* CreateError without the foreign key recordingId -> Recording.id
CreateErrorNoForeignKey(r) == IF HasTranscript(r) THEN <<"P2002">> ELSE <<>>

\* CreateError without recordingId @unique
CreateErrorNoUnique(r) == IF ~RecExists(r) THEN <<"P2003">> ELSE <<>>

\* the error of prisma.transcript.create, <<>> when the row is accepted:
\* the foreign key recordingId -> Recording.id and recordingId @unique
CreateError(r) ==
  IF ~RecExists(r) THEN <<"P2003">>
  ELSE IF HasTranscript(r) THEN <<"P2002">>
  ELSE <<>>

\* the error of an update of the Recording r, <<>> when the row is there
UpdateError(r) == IF RecExists(r) THEN <<>> ELSE <<"P2025">>

\* the error thrown by one database call: the code and the call that failed
ErrorAt(error, call) == IF error = <<>> THEN <<>> ELSE error \o <<call>>

\* A write fails only for a reason the tables give (a missing row, the
\* unique or the foreign key constraint). A read has no such reason: its
\* failure (the connection is lost) is an input of the read-side calls.

(***************************************************************************)
(* The transcription provider, the audio probe and the language model      *)
(***************************************************************************)
ProviderTranscripts ==
  {[status |-> "error", error |-> "quota", language_code |-> None,
    body |-> IdleResponse],
   [status |-> "completed", error |-> None, language_code |-> "en",
    body |-> Response(TRUE,
                      <<[start |-> 0, end |-> 2000, text |-> <<"hi">>, speaker |-> "A"],
                        [start |-> 2000, end |-> 4000, text |-> <<"hello">>,
                         speaker |-> "B"]>>,
                      FALSE, <<>>, <<"hi", "hello">>, 4)],
   [status |-> "completed", error |-> None, language_code |-> None,
    body |-> Response(FALSE, <<>>, TRUE, PlainWords(2, "A"), <<"hi", "hi">>, 0)],
   [status |-> "completed", error |-> None, language_code |-> "en",
    body |-> Response(FALSE, <<>>, FALSE, <<>>, <<"hi">>, 0)]}

\* what ffprobe reports: 0 stands for a failed probe or a missing duration
ProbeDurations == {0, 7}

\* the content of the first choice of the chat completion
LlmContents ==
  {<<"{", "Speaker A", ":", "Jane Doe", "}">>,
   <<"{", "Speaker A", ":", "Jane Doe", ",", "Speaker B", ":", "Acme Rep", "}">>,
   <<"{", "", ":", "Guest", ",", "Speaker A", ":", "", "}">>,
   <<"{", "Speaker A", ":">>,
   <<"null">>,
   <<>>}

\* an error is the sequence of the parts its message is built from
NoError == <<>>

(***************************************************************************)
(* transcribeAudio                                                         *)
(***************************************************************************)
NewRun(r, path) ==
  [rec |-> r, path |-> path, pc |-> "setTranscribing", result |-> <<>>,
   error |-> NoError, mapping |-> <<>>, ret |-> "running", raised |-> NoError,
   reported |-> None, hadTranscript |-> HasTranscript(r), log |-> <<>>]

Logged(run, event) == [run EXCEPT !.log = Append(run.log, event)]

\* the catch block of transcribeAudio is entered with the error thrown
Caught(run, error, event) ==
  [Logged(run, event) EXCEPT !.pc = "setFailed", !.error = error]

\* transcribeDirectly wraps whatever it catches
Wrapped(message) == <<"Transcription failed: ">> \o message

\* ResolverWanted with the comparison off by one
ResolverWantedFromOne(result) == openaiKey /\ result.speakerCount >= 1

\* the speaker resolver is called when it was constructed and speakerCount > 1
ResolverWanted(result) == openaiKey /\ result.speakerCount > 1

\* the run after storeTranscription has returned
AfterStore(run) ==
  IF ResolverWanted(run.result[1])
  THEN [Logged(run, "resolver:call") EXCEPT !.pc = "llm"]
  ELSE [run EXCEPT !.pc = "setCompleted"]

\* fs.statSync(filePath)
StatOk(run) == run.path = "stored" /\ run.rec \in files

\* await this.updateRecordingStatus(recordingId, 'TRANSCRIBING'), then
\* fs.statSync and the request to the provider
SetTranscribing(i) ==
  /\ i \in 1..Len(runs) /\ runs[i].pc = "setTranscribing"
  /\ LET run == runs[i]
         error == ErrorAt(UpdateError(run.rec), "status TRANSCRIBING")
     IN  IF error # NoError
         THEN /\ runs' = [runs EXCEPT ![i] = Caught(run, error, "fail:TRANSCRIBING")]
              /\ UNCHANGED recordings
         ELSE /\ recordings' = WithStatus(recordings, run.rec, "TRANSCRIBING")
              /\ runs' = [runs EXCEPT ![i] =
                   IF StatOk(run)
                   THEN [Logged(Logged(run, "write:TRANSCRIBING"), "provider:call")
                           EXCEPT !.pc = "provider"]
                   ELSE Caught(Logged(run, "write:TRANSCRIBING"), <<"ENOENT">>,
                               "fail:stat")]
  /\ UNCHANGED <<transcripts, files, uploads, triggers, deletes, idents, openaiKey,
                 nextRecording, normVars, reads, lastDelete>>

\* the TranscriptionResult built by transcribeDirectly
ResultOf(transcript, probe) ==
  LET segments == parseAssemblyAISegmentsWithSpeakers(transcript.body)
  IN  [text |-> transcript.body.text,
       segments |-> segments,
       language |-> IF Truthy(transcript.language_code)
                    THEN transcript.language_code ELSE "unknown",
       duration |-> IF transcript.body.audio_duration # 0
                    THEN transcript.body.audio_duration ELSE probe,
       speakerCount |-> SpeakerCount(segments)]

\* the provider request of transcribeDirectly is rejected
ProviderRejects(i) ==
  /\ i \in 1..Len(runs) /\ runs[i].pc = "provider"
  /\ runs' = [runs EXCEPT ![i] = Caught(runs[i], Wrapped(<<"network">>), "provider:rejected")]
  /\ UNCHANGED <<recordings, transcripts, files, uploads, triggers, deletes, idents,
                 openaiKey, nextRecording, normVars, reads, lastDelete>>

\* ProviderFailed without the check of the status
ProviderFailedUnchecked(transcript) == FALSE

\* if (transcript.status === 'error')
ProviderFailed(transcript) == transcript.status = "error"

\* the provider answers: the rest of transcribeDirectly, up to the create of
\* storeTranscription
ProviderReturns(i) ==
  /\ i \in 1..Len(runs) /\ runs[i].pc = "provider"
  /\ \E transcript \in ProviderTranscripts, probe \in ProbeDurations :
       LET run == Logged([runs[i] EXCEPT !.reported = transcript.error],
                         "provider:" \o transcript.status)
       IN  runs' = [runs EXCEPT ![i] =
             IF ProviderFailed(transcript)
             THEN Caught(run,
                         Wrapped(<<"AssemblyAI transcription failed: ",
                                   transcript.error>>),
                         "throw")
             ELSE [Logged(run, "normalize")
                     EXCEPT !.pc = "create",
                            !.result = <<ResultOf(transcript, probe)>>]]
  /\ UNCHANGED <<recordings, transcripts, files, uploads, triggers, deletes, idents,
                 openaiKey, nextRecording, normVars, reads, lastDelete>>

\* NewTranscript without `|| 1`
NewTranscriptCountAsIs(id, r, result) ==
  [id |-> id, recordingId |-> r, content |-> result.segments,
   rawTranscript |-> result.text, speakerCount |-> result.speakerCount,
   language |-> result.language, speakerNames |-> <<>>,
   speakerIdentified |-> FALSE]

\* the row of prisma.transcript.create
NewTranscript(id, r, result) ==
  [id |-> id, recordingId |-> r, content |-> result.segments,
   rawTranscript |-> result.text,
   speakerCount |-> IF result.speakerCount # 0 THEN result.speakerCount ELSE 1,
   language |-> result.language, speakerNames |-> <<>>,
   speakerIdentified |-> FALSE]

\* CreateTranscript that goes on without writing the row
CreateTranscriptSkipped(i) ==
  /\ i \in 1..Len(runs) /\ runs[i].pc = "create"
  /\ runs' = [runs EXCEPT ![i] = AfterStore(Logged(runs[i], "create"))]
  /\ UNCHANGED <<recordings, transcripts, files, uploads, triggers, deletes, idents,
                 openaiKey, nextRecording, normVars, reads, lastDelete>>

\* storeTranscription: prisma.transcript.create
CreateTranscript(i) ==
  /\ i \in 1..Len(runs) /\ runs[i].pc = "create"
  /\ LET run == runs[i]
         error == ErrorAt(CreateError(run.rec), "transcript.create")
         created == Logged(run, "create")
     IN  IF error # NoError
         THEN /\ runs' = [runs EXCEPT ![i] = Caught(run, error, "fail:create")]
              /\ UNCHANGED transcripts
         ELSE /\ transcripts' =
                   transcripts \cup {NewTranscript(i, run.rec, run.result[1])}
              /\ runs' = [runs EXCEPT ![i] =
                   IF run.result[1].duration > 0
                   THEN [created EXCEPT !.pc = "updateDuration"]
                   ELSE AfterStore(created)]
  /\ UNCHANGED <<recordings, files, uploads, triggers, deletes, idents, openaiKey,
                 nextRecording, normVars, reads, lastDelete>>

\* storeTranscription: prisma.recording.update of the duration
UpdateDuration(i) ==
  /\ i \in 1..Len(runs) /\ runs[i].pc = "updateDuration"
  /\ LET run == runs[i]
         error == ErrorAt(UpdateError(run.rec), "recording.update duration")
     IN  IF error # NoError
         THEN /\ runs' = [runs EXCEPT ![i] = Caught(run, error, "fail:duration")]
              /\ UNCHANGED recordings
         ELSE /\ recordings' =
                   WithDuration(recordings, run.rec, run.result[1].duration)
              /\ runs' = [runs EXCEPT ![i] = AfterStore(Logged(run, "duration"))]
  /\ UNCHANGED <<transcripts, files, uploads, triggers, deletes, idents, openaiKey,
                 nextRecording, normVars, reads, lastDelete>>

\* formatTimestamp: minutes and whole seconds
FormatTimestamp(t) == [min |-> t.sec \div 60, sec |-> t.sec % 60]

\* String.fromCharCode(65 + (index % 10))
Letters == <<"A", "B", "C", "D", "E", "F", "G", "H", "I", "J">>

\* segment.speaker || `Speaker ${String.fromCharCode(65 + (index % 10))}`,
\* index0 the zero-based position of the segment
PromptSpeaker(segment, index0) ==
  IF Truthy(segment.speaker) THEN segment.speaker
  ELSE "Speaker " \o Letters[(index0 % 10) + 1]

PromptCap == 50

\* prepareSpeakerSegments: the lines of the prompt, of the first 50 segments
PrepareSpeakerSegments(segments) ==
  [n \in 1..(IF Len(segments) < PromptCap THEN Len(segments) ELSE PromptCap) |->
     [timeStamp |-> FormatTimestamp(segments[n].start),
      speaker |-> PromptSpeaker(segments[n], n - 1),
      text |-> segments[n].text]]

\* what identifySpeakers makes of the answer of the language model: the
\* mapping parsed from it, or the error thrown
Identified(content) ==
  LET parsed == JsonParse(content)
  IN  IF content = <<>> THEN [ok |-> FALSE, error |-> <<"No response from GPT-4.1">>,
                              mapping |-> JsNull]
      ELSE IF ~parsed.ok THEN [ok |-> FALSE, error |-> <<"SyntaxError">>,
                               mapping |-> JsNull]
      ELSE [ok |-> TRUE, error |-> NoError, mapping |-> parsed.value]

\* WithSpeakerNames that also writes the labels of the prompt into the
\* stored segments
WithSpeakerNamesLabelled(rows, r, mapping) ==
  {IF t.recordingId = r
   THEN [t EXCEPT !.speakerNames = <<JsonStringify(mapping)>>,
                  !.speakerIdentified = TRUE,
                  !.content = [n \in 1..Len(t.content) |->
                                 [t.content[n] EXCEPT
                                    !.speaker = PromptSpeaker(t.content[n], n - 1)]]]
   ELSE t : t \in rows}

\* WithSpeakerNames that leaves speakerIdentified as it is
WithSpeakerNamesUnflagged(rows, r, mapping) ==
  {IF t.recordingId = r
   THEN [t EXCEPT !.speakerNames = <<JsonStringify(mapping)>>]
   ELSE t : t \in rows}

\* WithSpeakerNames that keeps a mapping already stored
WithSpeakerNamesOnce(rows, r, mapping) ==
  {IF t.recordingId = r /\ t.speakerNames = <<>>
   THEN [t EXCEPT !.speakerNames = <<JsonStringify(mapping)>>,
                  !.speakerIdentified = TRUE]
   ELSE t : t \in rows}

\* prisma.transcript.update({ where: { recordingId }, data: { speakerNames,
\* speakerIdentified: true } })
WithSpeakerNames(rows, r, mapping) ==
  {IF t.recordingId = r
   THEN [t EXCEPT !.speakerNames = <<JsonStringify(mapping)>>,
                  !.speakerIdentified = TRUE]
   ELSE t : t \in rows}

StoreError(r) == IF HasTranscript(r) THEN <<>> ELSE <<"P2025">>

\* Swallowed without the inner try/catch: the error reaches the outer catch
SwallowedNot(run) == Caught(run, <<"identifySpeakers">>, "resolver:fail")

\* transcribeAudio catches and logs the error of identifySpeakers
Swallowed(run) == [Logged(run, "resolver:fail") EXCEPT !.pc = "setCompleted"]

\* identifySpeakers called by transcribeAudio: the chat completion is rejected
LlmRejects(i) ==
  /\ i \in 1..Len(runs) /\ runs[i].pc = "llm"
  /\ runs' = [runs EXCEPT ![i] = Swallowed(runs[i])]
  /\ UNCHANGED <<recordings, transcripts, files, uploads, triggers, deletes, idents,
                 openaiKey, nextRecording, normVars, reads, lastDelete>>

\* identifySpeakers called by transcribeAudio: the chat completion returns
LlmReturns(i) ==
  /\ i \in 1..Len(runs) /\ runs[i].pc = "llm"
  /\ \E content \in LlmContents :
       LET got == Identified(content)
       IN  runs' = [runs EXCEPT ![i] =
             IF got.ok
             THEN [runs[i] EXCEPT !.pc = "storeMapping", !.mapping = <<got.mapping>>]
             ELSE Swallowed(runs[i])]
  /\ UNCHANGED <<recordings, transcripts, files, uploads, triggers, deletes, idents,
                 openaiKey, nextRecording, normVars, reads, lastDelete>>

\* storeSpeakerMapping called through transcribeAudio; its failure is caught
\* and logged by transcribeAudio
StoreMapping(i) ==
  /\ i \in 1..Len(runs) /\ runs[i].pc = "storeMapping"
  /\ LET run == runs[i]
         error == ErrorAt(StoreError(run.rec), "transcript.update")
     IN  IF error # NoError
         THEN /\ runs' = [runs EXCEPT ![i] = Swallowed(run)]
              /\ UNCHANGED transcripts
         ELSE /\ transcripts' = WithSpeakerNames(transcripts, run.rec, run.mapping[1])
              /\ runs' = [runs EXCEPT ![i] =
                   [Logged(run, "resolver:ok") EXCEPT !.pc = "setCompleted"]]
  /\ UNCHANGED <<recordings, files, uploads, triggers, deletes, idents, openaiKey,
                 nextRecording, normVars, reads, lastDelete>>

\* await this.updateRecordingStatus(recordingId, 'COMPLETED'); return
SetCompleted(i) ==
  /\ i \in 1..Len(runs) /\ runs[i].pc = "setCompleted"
  /\ LET run == runs[i]
         error == ErrorAt(UpdateError(run.rec), "status COMPLETED")
     IN  IF error # NoError
         THEN /\ runs' = [runs EXCEPT ![i] = Caught(run, error, "fail:COMPLETED")]
              /\ UNCHANGED recordings
         ELSE /\ recordings' = WithStatus(recordings, run.rec, "COMPLETED")
              /\ runs' = [runs EXCEPT ![i] =
                   [Logged(run, "write:COMPLETED")
                      EXCEPT !.pc = "done", !.ret = "returned"]]
  /\ UNCHANGED <<transcripts, files, uploads, triggers, deletes, idents, openaiKey,
                 nextRecording, normVars, reads, lastDelete>>

\* SetFailed that also ends a run that waits for the provider
SetFailedOrTimeout(i) ==
  /\ i \in 1..Len(runs) /\ runs[i].pc \in {"setFailed", "provider"}
  /\ LET run == IF runs[i].pc = "provider"
                THEN [runs[i] EXCEPT !.error = <<"timeout">>] ELSE runs[i]
         error == ErrorAt(UpdateError(run.rec), "status FAILED")
     IN  IF error # NoError
         THEN /\ runs' = [runs EXCEPT ![i] =
                   [Logged(run, "fail:FAILED")
                      EXCEPT !.pc = "done", !.ret = "raised", !.raised = error]]
              /\ UNCHANGED recordings
         ELSE /\ recordings' = WithStatus(recordings, run.rec, "FAILED")
              /\ runs' = [runs EXCEPT ![i] =
                   [Logged(run, "write:FAILED")
                      EXCEPT !.pc = "done", !.ret = "raised", !.raised = run.error]]
  /\ UNCHANGED <<transcripts, files, uploads, triggers, deletes, idents, openaiKey,
                 nextRecording, normVars, reads, lastDelete>>

\* catch: await this.updateRecordingStatus(recordingId, 'FAILED'); throw error
SetFailed(i) ==
  /\ i \in 1..Len(runs) /\ runs[i].pc = "setFailed"
  /\ LET run == runs[i]
         error == ErrorAt(UpdateError(run.rec), "status FAILED")
     IN  IF error # NoError
         THEN /\ runs' = [runs EXCEPT ![i] =
                   [Logged(run, "fail:FAILED")
                      EXCEPT !.pc = "done", !.ret = "raised", !.raised = error]]
              /\ UNCHANGED recordings
         ELSE /\ recordings' = WithStatus(recordings, run.rec, "FAILED")
              /\ runs' = [runs EXCEPT ![i] =
                   [Logged(run, "write:FAILED")
                      EXCEPT !.pc = "done", !.ret = "raised", !.raised = run.error]]
  /\ UNCHANGED <<transcripts, files, uploads, triggers, deletes, idents, openaiKey,
                 nextRecording, normVars, reads, lastDelete>>

(***************************************************************************)
(* reIdentifySpeakers (POST /transcripts/:recordingId/identify-speakers)   *)
(***************************************************************************)
\* the handler constructs the resolver, which needs the credential, and loads
\* the transcript; with one it calls identifySpeakers, which prepares the
\* prompt
ReIdentifyStart(r) ==
  /\ openaiKey /\ Calls < MaxCalls
  /\ idents' = Append(idents,
       IF HasTranscript(r)
       THEN [rec |-> r, pc |-> "llm", mapping |-> <<>>, ret |-> "running",
             raised |-> NoError,
             prompt |-> PrepareSpeakerSegments(
                          (CHOOSE t \in TranscriptsOf(r) : TRUE).content)]
       ELSE [rec |-> r, pc |-> "done", mapping |-> <<>>, ret |-> "raised",
             raised |-> <<"Transcript not found">>, prompt |-> <<>>])
  /\ UNCHANGED <<recordings, transcripts, files, uploads, triggers, deletes, runs,
                 openaiKey, nextRecording, normVars, reads, lastDelete>>

IdentLlmRejects(k) ==
  /\ k \in 1..Len(idents) /\ idents[k].pc = "llm"
  /\ idents' = [idents EXCEPT ![k] =
       [@ EXCEPT !.pc = "done", !.ret = "raised", !.raised = <<"APIError">>]]
  /\ UNCHANGED <<recordings, transcripts, files, uploads, triggers, deletes, runs,
                 openaiKey, nextRecording, normVars, reads, lastDelete>>

IdentLlmReturns(k) ==
  /\ k \in 1..Len(idents) /\ idents[k].pc = "llm"
  /\ \E content \in LlmContents :
       LET got == Identified(content)
       IN  idents' = [idents EXCEPT ![k] =
             IF got.ok
             THEN [@ EXCEPT !.pc = "store", !.mapping = <<got.mapping>>]
             ELSE [@ EXCEPT !.pc = "done", !.ret = "raised", !.raised = got.error]]
  /\ UNCHANGED <<recordings, transcripts, files, uploads, triggers, deletes, runs,
                 openaiKey, nextRecording, normVars, reads, lastDelete>>

IdentStore(k) ==
  /\ k \in 1..Len(idents) /\ idents[k].pc = "store"
  /\ LET ident == idents[k]
         error == ErrorAt(StoreError(ident.rec), "transcript.update")
     IN  IF error # NoError
         THEN /\ idents' = [idents EXCEPT ![k] =
                   [@ EXCEPT !.pc = "done", !.ret = "raised", !.raised = error]]
              /\ UNCHANGED transcripts
         ELSE /\ transcripts' =
                   WithSpeakerNames(transcripts, ident.rec, ident.mapping[1])
              /\ idents' = [idents EXCEPT ![k] =
                   [@ EXCEPT !.pc = "done", !.ret = "returned"]]
  /\ UNCHANGED <<recordings, files, uploads, triggers, deletes, runs, openaiKey,
                 nextRecording, normVars, reads, lastDelete>>

(***************************************************************************)
(* The read side: getSpeakerMapping, applySpeakerNamesToSegments,          *)
(* getTranscription                                                        *)
(***************************************************************************)
\* the names every object inherits from Object.prototype, as far as the
\* model uses them as speaker tags
InheritedKeys == {"constructor"}

\* value[key] in JavaScript, None for undefined: an own member of an object,
\* else what Object.prototype or Array.prototype gives, a function
Lookup(value, key) ==
  IF value.kind = "object" /\ \E i \in 1..Len(value.members) : value.members[i][1] = key
  THEN LET i == CHOOSE j \in 1..Len(value.members) : value.members[j][1] = key
       IN  value.members[i][2]
  ELSE IF key \in InheritedKeys THEN "<function>"
  ELSE None

\* the speakerNames field of the Transcript of r: <<>> for no row or null
StoredNames(r) ==
  IF HasTranscript(r) THEN (CHOOSE t \in TranscriptsOf(r) : TRUE).speakerNames
  ELSE <<>>

\* JSON.parse(speakerNames) where it yields a truthy value: <<>> for a text
\* that does not parse and for the text null
ParsedNames(names) ==
  IF names = <<>> THEN <<>>
  ELSE LET parsed == JsonParse(names[1])
       IN  IF parsed.ok /\ parsed.value # JsNull THEN <<parsed.value>> ELSE <<>>

\* what getSpeakerMapping returns, <<>> for null: a failure of findUnique or
\* of JSON.parse is caught, logged and answered with null
SpeakerMappingOf(r, fault) == IF fault THEN <<>> ELSE ParsedNames(StoredNames(r))

\* NamedSpeaker that drops the tag of a segment the mapping does not name
NamedSpeakerOrNone(mapping, speaker) ==
  Lookup(mapping, IF Truthy(speaker) THEN speaker ELSE "")

\* speakerMapping[segment.speaker || ''] || segment.speaker
NamedSpeaker(mapping, speaker) ==
  LET named == Lookup(mapping, IF Truthy(speaker) THEN speaker ELSE "")
  IN  IF Truthy(named) THEN named ELSE speaker

\* the segments applySpeakerNamesToSegments returns for a mapping read
WithNames(mapping, segments) ==
  IF mapping = <<>> THEN segments
  ELSE [i \in 1..Len(segments) |->
          [segments[i] EXCEPT !.speaker = NamedSpeaker(mapping[1], @)]]

\* segment.speaker && speakerNames[segment.speaker]
\*   ? speakerNames[segment.speaker] : segment.speaker
SpeakerNameOf(names, speaker) ==
  IF Truthy(speaker) /\ Truthy(Lookup(names, speaker))
  THEN Lookup(names, speaker) ELSE speaker

\* SpeakerNameOf written into the field speaker instead of speakerName
OverlaidInPlace(names, segment) ==
  [start |-> segment.start, end |-> segment.end, text |-> segment.text,
   speaker |-> SpeakerNameOf(names, segment.speaker), speakerName |-> None]

\* { ...segment, speakerName: ... }
Overlaid(names, segment) ==
  [start |-> segment.start, end |-> segment.end, text |-> segment.text,
   speaker |-> segment.speaker,
   speakerName |-> SpeakerNameOf(names, segment.speaker)]

\* a stored segment as getTranscription returns it without the overlay
Plain(segment) ==
  [start |-> segment.start, end |-> segment.end, text |-> segment.text,
   speaker |-> segment.speaker, speakerName |-> None]

\* the segments of the object getTranscription returns
TranscriptionSegments(content, names) ==
  [i \in 1..Len(content) |->
     IF names # <<>> THEN Overlaid(names[1], content[i]) ELSE Plain(content[i])]

\* a read-side call: the operation and its recording, the speakerNames
\* stored when it ran, the segments given, and what it answered
NoRead ==
  [op |-> "none", rec |-> 0, stored |-> <<>>, input |-> <<>>, ret |-> "returned",
   found |-> FALSE, value |-> <<>>, segments |-> <<>>, answer |-> <<>>]

\* GET /transcripts/:recordingId/speakers: getSpeakerMapping
GetSpeakerMapping(r) ==
  /\ Calls < MaxCalls
  /\ \E fault \in BOOLEAN :
       reads' = Append(reads,
         [NoRead EXCEPT !.op = "getSpeakerMapping", !.rec = r,
                        !.stored = StoredNames(r),
                        !.value = SpeakerMappingOf(r, fault),
                        !.found = (SpeakerMappingOf(r, fault) # <<>>),
                        !.ret = IF fault THEN "caught" ELSE "returned"])
  /\ UNCHANGED <<recordings, transcripts, files, uploads, triggers, deletes, runs,
                 idents, openaiKey, nextRecording, normVars, lastDelete>>

\* the segment lists given to applySpeakerNamesToSegments
ApplyInputs ==
  {<<[start |-> Seconds(0), end |-> Seconds(2), text |-> <<"hi">>,
      speaker |-> "Speaker A"],
     [start |-> Seconds(2), end |-> Seconds(4), text |-> <<"hello">>,
      speaker |-> "Speaker B"],
     [start |-> Seconds(4), end |-> Seconds(5), text |-> <<"ok.">>,
      speaker |-> None]>>,
   <<[start |-> Seconds(0), end |-> Seconds(2), text |-> <<"hi">>,
      speaker |-> "constructor"]>>,
   <<>>}

\* applySpeakerNamesToSegments: getSpeakerMapping, then segments.map
ApplySpeakerNamesToSegments(r) ==
  /\ Calls < MaxCalls
  /\ \E fault \in BOOLEAN, segments \in ApplyInputs :
       reads' = Append(reads,
         [NoRead EXCEPT !.op = "applySpeakerNamesToSegments", !.rec = r,
                        !.stored = StoredNames(r),
                        !.input = segments,
                        !.value = SpeakerMappingOf(r, fault),
                        !.found = (SpeakerMappingOf(r, fault) # <<>>),
                        !.ret = IF fault THEN "caught" ELSE "returned",
                        !.segments = WithNames(SpeakerMappingOf(r, fault), segments)])
  /\ UNCHANGED <<recordings, transcripts, files, uploads, triggers, deletes, runs,
                 idents, openaiKey, nextRecording, normVars, lastDelete>>

\* getTranscription: findUnique, JSON.parse of content and of speakerNames,
\* the overlay; a failure of findUnique is logged and thrown again
TranscriptionRead(r, fault) ==
  IF fault
  THEN [NoRead EXCEPT !.op = "getTranscription", !.rec = r,
                      !.stored = StoredNames(r), !.ret = "raised"]
  ELSE IF ~HasTranscript(r)
  THEN [NoRead EXCEPT !.op = "getTranscription", !.rec = r]
  ELSE LET row == CHOOSE t \in TranscriptsOf(r) : TRUE
           names == ParsedNames(row.speakerNames)
       IN  [NoRead EXCEPT !.op = "getTranscription", !.rec = r,
                          !.stored = row.speakerNames,
                          !.input = row.content,
                          !.found = TRUE, !.value = names,
                          !.segments = TranscriptionSegments(row.content, names)]

GetTranscription(r) ==
  /\ Calls < MaxCalls
  /\ \E fault \in BOOLEAN : reads' = Append(reads, TranscriptionRead(r, fault))
  /\ UNCHANGED <<recordings, transcripts, files, uploads, triggers, deletes, runs,
                 idents, openaiKey, nextRecording, normVars, lastDelete>>

(***************************************************************************)
(* Upload service and routers                                              *)
(***************************************************************************)
\* POST /upload: multer has stored the file; UploadService.createRecording
UploadCreate ==
  /\ nextRecording < MaxRecordings
  /\ LET id == nextRecording + 1
     IN  /\ recordings' = recordings \cup
                            {[id |-> id, status |-> "UPLOADING", duration |-> 0]}
         /\ files' = files \cup {id}
         /\ uploads' = uploads \cup {id}
  /\ nextRecording' = nextRecording + 1
  /\ UNCHANGED <<transcripts, triggers, deletes, runs, idents, openaiKey,
                 normVars, reads, lastDelete>>

\* POST /upload: UploadService.updateRecordingStatus(id, PROCESSING); when it
\* fails the handler removes the uploaded file
UploadSetProcessing(r) ==
  /\ r \in uploads
  /\ uploads' = uploads \ {r}
  /\ IF UpdateError(r) # NoError
     THEN files' = files \ {r} /\ UNCHANGED recordings
     ELSE recordings' = WithStatus(recordings, r, "PROCESSING") /\ UNCHANGED files
  /\ UNCHANGED <<transcripts, triggers, deletes, runs, idents, openaiKey,
                 nextRecording, normVars, reads, lastDelete>>

\* UploadService.deleteRecording: the row is found and the file unlinked
DeleteRecordingUnlink(r) ==
  /\ RecExists(r) /\ r \notin deletes
  /\ files' = files \ {r}
  /\ deletes' = deletes \cup {r}
  /\ UNCHANGED <<recordings, transcripts, uploads, triggers, runs, idents,
                 openaiKey, nextRecording, normVars, reads, lastDelete>>

\* UploadService.deleteRecording: prisma.recording.delete, onDelete: Cascade
DeleteRecordingRow(r) ==
  /\ r \in deletes
  /\ deletes' = deletes \ {r}
  /\ recordings' = {row \in recordings : row.id # r}
  /\ transcripts' = {t \in transcripts : t.recordingId # r}
  /\ UNCHANGED <<files, uploads, triggers, runs, idents, openaiKey, nextRecording, normVars, reads, lastDelete>>

\* no deleteTranscription call has been made
NoDelete == [rec |-> 0, ret |-> FALSE]

\* DeleteTranscription that also puts the recording back to PROCESSING
DeleteTranscriptionResets(r) ==
  /\ lastDelete' = [rec |-> r, ret |-> HasTranscript(r)]
  /\ transcripts' = transcripts \ TranscriptsOf(r)
  /\ recordings' = IF HasTranscript(r) THEN WithStatus(recordings, r, "PROCESSING")
                   ELSE recordings
  /\ UNCHANGED <<files, uploads, triggers, deletes, runs, idents, openaiKey,
                 nextRecording, normVars, reads>>

\* DeleteTranscription that answers false with a row as well
DeleteTranscriptionFalse(r) ==
  /\ lastDelete' = [rec |-> r, ret |-> FALSE]
  /\ transcripts' = transcripts \ TranscriptsOf(r)
  /\ UNCHANGED <<recordings, files, uploads, triggers, deletes, runs, idents,
                 openaiKey, nextRecording, normVars, reads>>

\* deleteTranscription: prisma.transcript.delete({ where: { recordingId } })
\* returns true; without a row it throws P2025, answered with false
DeleteTranscription(r) ==
  /\ lastDelete' = [rec |-> r, ret |-> HasTranscript(r)]
  /\ transcripts' = transcripts \ TranscriptsOf(r)
  /\ UNCHANGED <<recordings, files, uploads, triggers, deletes, runs, idents,
                 openaiKey, nextRecording, normVars, reads>>

\* POST /transcripts: transcribeAudio is started for the recordingId and the
\* filePath of the request body, whatever they are. The ids are the uuids
\* createRecording has issued: a request names one of them, whose row may be
\* gone by now, and never one that is issued later
PostTranscripts(r, path) ==
  /\ r <= nextRecording /\ Calls < MaxCalls
  /\ runs' = Append(runs, NewRun(r, path))
  /\ UNCHANGED <<recordings, transcripts, files, uploads, triggers, deletes, idents,
                 openaiKey, nextRecording, normVars, reads, lastDelete>>

\* the answer of the catch block of the handler of POST /upload/:id/transcribe
Failed500(message) ==
  [status |-> 500, error |-> "Failed to start transcription", message |-> message]

AlreadyExists400 ==
  [status |-> 400, error |-> "Transcription already exists",
   message |-> "This recording has already been transcribed"]

\* a POST /upload/:id/transcribe that has ended without starting a run
Answered(r, found, answer) ==
  [NoRead EXCEPT !.op = "transcribe", !.rec = r, !.found = found,
                 !.ret = "answered", !.answer = <<answer>>]

\* POST /upload/:id/transcribe: UploadService.getRecording finds the row, or
\* throws 'Recording not found', which the catch block of the handler
\* answers. The id is one createRecording has issued
TriggerGetRecording(r) ==
  /\ r <= nextRecording /\ r \notin triggers /\ Calls < MaxCalls
  /\ IF RecExists(r)
     THEN triggers' = triggers \cup {r} /\ UNCHANGED reads
     ELSE /\ reads' = Append(reads,
                 Answered(r, FALSE, Failed500("Recording not found")))
          /\ UNCHANGED triggers
  /\ UNCHANGED <<recordings, transcripts, files, uploads, deletes, runs, idents,
                 openaiKey, nextRecording, normVars, lastDelete>>

\* POST /upload/:id/transcribe: getTranscription, then 'Transcription already
\* exists' or transcribeAudio with the filePath of the recording
TriggerTranscribe(r) ==
  /\ r \in triggers /\ Calls < MaxCalls
  /\ triggers' = triggers \ {r}
  /\ IF HasTranscript(r)
     THEN reads' = Append(reads, Answered(r, TRUE, AlreadyExists400))
          /\ UNCHANGED runs
     ELSE runs' = Append(runs, NewRun(r, "stored")) /\ UNCHANGED reads
  /\ UNCHANGED <<recordings, transcripts, files, uploads, deletes, idents,
                 openaiKey, nextRecording, normVars, lastDelete>>

(***************************************************************************)
(* The system                                                              *)
(***************************************************************************)
InitSystem ==
  /\ recordings = {} /\ transcripts = {} /\ files = {}
  /\ uploads = {} /\ triggers = {} /\ deletes = {}
  /\ runs = <<>> /\ idents = <<>> /\ reads = <<>>
  /\ lastDelete = NoDelete
  /\ nextRecording = 0

IdleLoop == [i |-> 0, st |-> LoopStart]

InitNormIdle == resp = IdleResponse /\ segs = <<>> /\ npc = "idle" /\ wloop = IdleLoop

Init == InitSystem /\ openaiKey \in BOOLEAN /\ InitNormIdle

Next ==
  \/ UploadCreate
  \/ \E r \in RecIds : UploadSetProcessing(r)
  \/ \E r \in RecIds : DeleteRecordingUnlink(r)
  \/ \E r \in RecIds : DeleteRecordingRow(r)
  \/ \E r \in RecIds : DeleteTranscription(r)
  \/ \E r \in RecIds, path \in {"stored", "bogus"} : PostTranscripts(r, path)
  \/ \E r \in RecIds : TriggerGetRecording(r)
  \/ \E r \in RecIds : TriggerTranscribe(r)
  \/ \E r \in RecIds : ReIdentifyStart(r)
  \/ \E k \in 1..MaxCalls : IdentLlmRejects(k)
  \/ \E k \in 1..MaxCalls : IdentLlmReturns(k)
  \/ \E k \in 1..MaxCalls : IdentStore(k)
  \/ \E i \in 1..MaxCalls : SetTranscribing(i)
  \/ \E i \in 1..MaxCalls : ProviderRejects(i)
  \/ \E i \in 1..MaxCalls : ProviderReturns(i)
  \/ \E i \in 1..MaxCalls : CreateTranscript(i)
  \/ \E i \in 1..MaxCalls : UpdateDuration(i)
  \/ \E i \in 1..MaxCalls : LlmRejects(i)
  \/ \E i \in 1..MaxCalls : LlmReturns(i)
  \/ \E i \in 1..MaxCalls : StoreMapping(i)
  \/ \E i \in 1..MaxCalls : SetCompleted(i)
  \/ \E i \in 1..MaxCalls : SetFailed(i)

Spec == Init /\ [][Next]_vars

(***************************************************************************)
(* The normalizer on its own                                               *)
(***************************************************************************)
InitNorm ==
  /\ InitSystem /\ openaiKey = TRUE
  /\ resp \in NormInputs /\ segs = <<>> /\ npc = "ready" /\ wloop = IdleLoop

\* the utterances branch and the whole-transcript fallback
NormalizeDirect ==
  /\ npc = "ready" /\ (resp.hasUtterances \/ ~resp.hasWords)
  /\ segs' = parseAssemblyAISegmentsWithSpeakers(resp)
  /\ npc' = "done"
  /\ UNCHANGED <<resp, wloop, sysVars>>

\* the words branch is entered
NormalizeWords ==
  /\ npc = "ready" /\ ~resp.hasUtterances /\ resp.hasWords
  /\ wloop' = [i |-> 1, st |-> LoopStart]
  /\ npc' = "loop"
  /\ UNCHANGED <<resp, segs, sysVars>>

\* one iteration of the loop over transcript.words
WordIteration ==
  /\ npc = "loop" /\ wloop.i <= Len(resp.words)
  /\ wloop' = [i |-> wloop.i + 1, st |-> WordStep(resp.words, wloop.i, wloop.st)]
  /\ UNCHANGED <<resp, segs, npc, sysVars>>

\* return segments
NormalizeWordsReturn ==
  /\ npc = "loop" /\ wloop.i > Len(resp.words)
  /\ segs' = wloop.st.segments
  /\ npc' = "done"
  /\ UNCHANGED <<resp, wloop, sysVars>>

NextNorm ==
  \/ NormalizeDirect
  \/ NormalizeWords
  \/ WordIteration
  \/ NormalizeWordsReturn

SpecNorm == InitNorm /\ [][NextNorm]_vars

\* the loop run step by step returns what WordsToSegments returns
LoopAgrees ==
  npc = "done" /\ ~resp.hasUtterances /\ resp.hasWords /\ Len(resp.words) <= 8
    => segs = WordsToSegments(resp.words)

(***************************************************************************)
(* The speaker mapping of a stored transcript: resolver calls and reads    *)
(***************************************************************************)
\* the segments of the stored transcript
StoredContent ==
  <<[start |-> Seconds(0), end |-> Seconds(2), text |-> <<"hi">>,
     speaker |-> "Speaker A"],
    [start |-> Seconds(2), end |-> Seconds(4), text |-> <<"hello">>,
     speaker |-> "Speaker B"],
    [start |-> Seconds(4), end |-> Seconds(5), text |-> <<"ok.">>,
     speaker |-> None]>>

\* the speakerNames a Transcript can hold: none, or what storeSpeakerMapping
\* wrote for an answer of the language model
StoredSamples ==
  {<<>>} \cup {<<JsonStringify(Identified(content).mapping)>> :
                 content \in {c \in LlmContents : Identified(c).ok}}

\* a recording that a run has transcribed: its row is COMPLETED and it has
\* a Transcript, with or without a stored mapping
InitMap ==
  /\ recordings = {[id |-> 1, status |-> "COMPLETED", duration |-> 5]}
  /\ files = {1} /\ nextRecording = 1
  /\ \E names \in StoredSamples :
       transcripts = {[id |-> 0, recordingId |-> 1, content |-> StoredContent,
                       rawTranscript |-> <<"hi", "hello", "ok.">>,
                       speakerCount |-> 2, language |-> "en",
                       speakerNames |-> names,
                       speakerIdentified |-> (names # <<>>)]}
  /\ uploads = {} /\ triggers = {} /\ deletes = {}
  /\ runs = <<>> /\ idents = <<>> /\ reads = <<>>
  /\ lastDelete = NoDelete
  /\ openaiKey = TRUE
  /\ InitNormIdle

NextMap ==
  \/ \E r \in RecIds : ReIdentifyStart(r)
  \/ \E k \in 1..MaxCalls : IdentLlmRejects(k)
  \/ \E k \in 1..MaxCalls : IdentLlmReturns(k)
  \/ \E k \in 1..MaxCalls : IdentStore(k)
  \/ \E r \in RecIds : DeleteTranscription(r)
  \/ \E r \in RecIds : GetSpeakerMapping(r)
  \/ \E r \in RecIds : ApplySpeakerNamesToSegments(r)
  \/ \E r \in RecIds : GetTranscription(r)

SpecMap == InitMap /\ [][NextMap]_vars

(***************************************************************************)
(* Runs, resolver calls and reads over a stored transcript                 *)
(***************************************************************************)
NextStore ==
  \/ NextMap
  \/ \E r \in RecIds : DeleteRecordingUnlink(r)
  \/ \E r \in RecIds : DeleteRecordingRow(r)
  \/ \E r \in RecIds, path \in {"stored", "bogus"} : PostTranscripts(r, path)
  \/ \E i \in 1..MaxCalls : SetTranscribing(i)
  \/ \E i \in 1..MaxCalls : ProviderRejects(i)
  \/ \E i \in 1..MaxCalls : ProviderReturns(i)
  \/ \E i \in 1..MaxCalls : CreateTranscript(i)
  \/ \E i \in 1..MaxCalls : UpdateDuration(i)
  \/ \E i \in 1..MaxCalls : LlmRejects(i)
  \/ \E i \in 1..MaxCalls : LlmReturns(i)
  \/ \E i \in 1..MaxCalls : StoreMapping(i)
  \/ \E i \in 1..MaxCalls : SetCompleted(i)
  \/ \E i \in 1..MaxCalls : SetFailed(i)

SpecStore == InitMap /\ [][NextStore]_vars

(***************************************************************************)
(* Runs of an uploaded recording, with the scheduling of their steps       *)
(***************************************************************************)
\* a recording whose upload has finished: PROCESSING, its file on disk
InitLive ==
  /\ recordings = {[id |-> 1, status |-> "PROCESSING", duration |-> 0]}
  /\ files = {1} /\ nextRecording = 1
  /\ transcripts = {}
  /\ uploads = {} /\ triggers = {} /\ deletes = {}
  /\ runs = <<>> /\ idents = <<>> /\ reads = <<>>
  /\ lastDelete = NoDelete
  /\ openaiKey = TRUE
  /\ InitNormIdle

\* the steps of run i that wait for the database only
RunStep(i) ==
  \/ SetTranscribing(i)
  \/ CreateTranscript(i)
  \/ UpdateDuration(i)
  \/ StoreMapping(i)
  \/ SetCompleted(i)
  \/ SetFailed(i)

\* the steps of run i that are answers of the provider or the language model
ExternalStep(i) ==
  \/ ProviderRejects(i)
  \/ ProviderReturns(i)
  \/ LlmRejects(i)
  \/ LlmReturns(i)

NextLive ==
  \/ \E r \in RecIds, path \in {"stored", "bogus"} : PostTranscripts(r, path)
  \/ \E r \in RecIds : TriggerGetRecording(r)
  \/ \E r \in RecIds : TriggerTranscribe(r)
  \/ \E r \in RecIds : DeleteRecordingUnlink(r)
  \/ \E r \in RecIds : DeleteRecordingRow(r)
  \/ \E i \in 1..MaxCalls : RunStep(i)
  \/ \E i \in 1..MaxCalls : ExternalStep(i)

\* An awaited database call settles: every step of a run that waits for the
\* database only is taken. Nothing makes the provider or the language model
\* answer, and nothing else ends the wait: no fairness for ExternalStep.
SpecLive ==
  /\ InitLive /\ [][NextLive]_vars
  /\ \A i \in 1..MaxCalls : WF_vars(RunStep(i))

(***************************************************************************)
(* Properties of the normalizer (SpecNorm)                                 *)
(***************************************************************************)
ExampleUtterances ==
  <<[start |-> 0, end |-> 2000, text |-> <<"hi">>, speaker |-> "A"],
    [start |-> 2000, end |-> 4000, text |-> <<"hello">>, speaker |-> "B"]>>

ExampleSegments ==
  <<[start |-> [sec |-> 0, ms |-> 0], end |-> [sec |-> 2, ms |-> 0],
     text |-> <<"hi">>, speaker |-> "Speaker A"],
    [start |-> [sec |-> 2, ms |-> 0], end |-> [sec |-> 4, ms |-> 0],
     text |-> <<"hello">>, speaker |-> "Speaker B"]>>

\* a number of seconds in normal form
IsSeconds(t) == t.sec >= 0 /\ t.ms \in 0..999

\* C9: when `utterances` is present the output has one segment per
\* utterance, in order; segment i starts and ends at the utterance's start and
\* end divided by 1000, has its text, and has the tag 'Speaker ' + id when the
\* utterance has a speaker and no tag otherwise; the example of the spec yields
\* the two segments given there and speakerCount 2.
C9_UtterancesMapped ==
  npc = "done" /\ resp.hasUtterances =>
    /\ Len(segs) = Len(resp.utterances)
    /\ \A i \in 1..Len(segs) :
         LET u == resp.utterances[i]
         IN  /\ IsSeconds(segs[i].start) /\ ToMs(segs[i].start) = u.start
             /\ IsSeconds(segs[i].end) /\ ToMs(segs[i].end) = u.end
             /\ segs[i].text = u.text
             /\ segs[i].speaker =
                  IF u.speaker \in {None, ""} THEN None ELSE "Speaker " \o u.speaker
    /\ resp.utterances = ExampleUtterances =>
         segs = ExampleSegments /\ SpeakerCount(segs) = 2

C9_Witness ==
  npc = "done" /\ resp.hasUtterances /\ resp.utterances = ExampleUtterances
  /\ Len(segs) = 2

\* the input of C10: only `words`, at least one, one speaker on every word,
\* no word ending a sentence
PlainInput ==
  /\ ~resp.hasUtterances /\ resp.hasWords /\ Len(resp.words) >= 1
  /\ \A j \in 1..Len(resp.words) :
       /\ resp.words[j].speaker = resp.words[1].speaker
       /\ ~EndsSentence(resp.words[j].text)

\* C10: for n >= 1 words of one speaker without sentence-ending punctuation
\* the output has ceil(n / 50) segments, each but the last of exactly 50
\* words; 51 words yield two segments, of 50 words and of 1 word, with the
\* same tag.
C10_FiftyWordSegments ==
  npc = "done" /\ PlainInput =>
    LET n == Len(resp.words)
    IN  /\ Len(segs) = (n + SegmentCap - 1) \div SegmentCap
        /\ \A i \in 1..(Len(segs) - 1) : Len(segs[i].text) = SegmentCap
        /\ n = 51 => /\ Len(segs) = 2
                     /\ Len(segs[1].text) = 50 /\ Len(segs[2].text) = 1
                     /\ segs[1].speaker = segs[2].speaker

\* the speaker tag of the word the loop is at differs from the speaker of
\* the segment in progress
SpeakerFlips ==
  /\ npc = "loop" /\ wloop.i > 1 /\ wloop.i <= Len(resp.words)
  /\ SpeakerTag(resp.words[wloop.i].speaker) # wloop.st.currentSpeaker

\* C11: when the tag of word k differs from the speaker of the segment in
\* progress, the iteration at word k closes that segment without word k, with
\* the end time of word k-1, and starts the next segment at the start time of
\* word k with word k as its first word.
C11_BoundaryBeforeFlip ==
  [][SpeakerFlips /\ wloop'.i = wloop.i + 1 =>
       LET k == wloop.i
           out == wloop'.st.segments
       IN  /\ Len(out) = Len(wloop.st.segments) + 1
           /\ out[Len(out)].text = wloop.st.currentSegment
           /\ out[Len(out)].end = Div1000(resp.words[k - 1].end)
           /\ wloop'.st.segmentStart = Div1000(resp.words[k].start)
           /\ wloop'.st.currentSegment = <<resp.words[k].text>>]_vars

\* the whole-transcript segment
FallbackSegment ==
  [start |-> Seconds(0), end |-> Seconds(resp.audio_duration),
   text |-> resp.text, speaker |-> None]

\* C12: a response with non-empty text yields at least one segment; with
\* `utterances` absent or empty the words are used, and with `words` absent
\* or empty too the output is the single whole-transcript segment.
C12_NonEmptyOutput ==
  npc = "done" /\ resp.text # <<>> =>
    /\ segs # <<>>
    /\ (~resp.hasUtterances \/ resp.utterances = <<>>) =>
         IF resp.hasWords /\ resp.words # <<>>
         THEN segs[1].start = Div1000(resp.words[1].start)
         ELSE segs = <<FallbackSegment>>

\* t1 <= t2 and t1 < t2 on seconds
TimeLeq(t1, t2) == ToMs(t1) <= ToMs(t2)

TimeLess(t1, t2) == ToMs(t1) < ToMs(t2)

\* each word's start < its end <= the next word's start
WordsInOrder(words) ==
  /\ \A j \in 1..Len(words) : words[j].start < words[j].end
  /\ \A j \in 1..(Len(words) - 1) : words[j].end <= words[j + 1].start

\* C13: for words in time order that do not overlap, the segments have
\* non-decreasing starts, each starts before it ends, and each starts no
\* earlier than the previous one ends.
C13_SegmentsInOrder ==
  npc = "done" /\ ~resp.hasUtterances /\ resp.hasWords /\ WordsInOrder(resp.words) =>
    /\ \A i \in 1..Len(segs) : TimeLess(segs[i].start, segs[i].end)
    /\ \A i \in 1..(Len(segs) - 1) :
         /\ TimeLeq(segs[i].start, segs[i + 1].start)
         /\ TimeLeq(segs[i].end, segs[i + 1].start)

(***************************************************************************)
(* Properties of the system (Spec)                                         *)
(***************************************************************************)
Range(seq) == {seq[n] : n \in 1..Len(seq)}

Has(log, event) == event \in Range(log)

\* the place of the first occurrence of an event, 0 when there is none
Pos(log, event) ==
  IF Has(log, event) THEN CHOOSE n \in 1..Len(log) :
                            log[n] = event /\ \A m \in 1..(n - 1) : log[m] # event
  ELSE 0

Before(log, a, b) == Has(log, a) /\ Has(log, b) /\ Pos(log, a) < Pos(log, b)

StatusWrites == {"write:TRANSCRIBING", "write:COMPLETED", "write:FAILED"}

\* the last status a run has written, None when it has written none
LastWrite(log) ==
  LET at == {n \in 1..Len(log) : log[n] \in StatusWrites}
  IN  IF at = {} THEN None ELSE log[CHOOSE n \in at : \A m \in at : m <= n]

Done(i) == runs[i].pc = "done"

InFlight(i) == runs[i].pc # "done"

\* C1: a run whose provider reports status 'error' creates no Transcript
\* row, writes FAILED as its last status, and raises an error whose message
\* carries the provider's error message.
C1_ProviderErrorFails ==
  \A i \in 1..Len(runs) :
    Done(i) /\ Has(runs[i].log, "provider:error") =>
      /\ ~Has(runs[i].log, "create")
      /\ \A t \in transcripts : t.id # i
      /\ LastWrite(runs[i].log) = "write:FAILED"
      /\ runs[i].ret = "raised"
      /\ runs[i].reported \in Range(runs[i].raised)

\* the steps of C2: every step of the run but the COMPLETED status write
EarlyFailures ==
  {"fail:TRANSCRIBING", "fail:stat", "provider:rejected", "provider:error",
   "fail:create", "fail:duration"}

\* C2: when a step before the COMPLETED status write fails, the run sets
\* the status FAILED and raises the error that made the step fail.
C2_FailureSetsFailed ==
  \A i \in 1..Len(runs) :
    Done(i) /\ Range(runs[i].log) \cap EarlyFailures # {} =>
      /\ LastWrite(runs[i].log) = "write:FAILED"
      /\ runs[i].ret = "raised"
      /\ runs[i].raised = runs[i].error

\* C3: in every run the TRANSCRIBING write precedes the provider call, the
\* provider call has returned a status other than error before the segments
\* are normalized, the normalization precedes the create, the Transcript row
\* is created before the resolver is invoked, and the COMPLETED write follows
\* the end of the resolver call; no run creates a row without a provider
\* call that returned successfully.
C3_StepsInOrder ==
  \A i \in 1..Len(runs) :
    LET log == runs[i].log
    IN  /\ Has(log, "provider:call") => Before(log, "write:TRANSCRIBING", "provider:call")
        /\ Has(log, "normalize") =>
             /\ Before(log, "provider:call", "provider:completed")
             /\ Before(log, "provider:completed", "normalize")
             /\ ~Has(log, "provider:error")
        /\ Has(log, "create") => Before(log, "normalize", "create")
        /\ Has(log, "resolver:call") => Before(log, "create", "resolver:call")
        /\ Has(log, "write:COMPLETED") =>
             /\ Before(log, "create", "write:COMPLETED")
             /\ Has(log, "resolver:call") =>
                  \/ Before(log, "resolver:ok", "write:COMPLETED")
                  \/ Before(log, "resolver:fail", "write:COMPLETED")
        /\ \A t \in transcripts :
             t.id = i => Has(log, "provider:completed") /\ ~Has(log, "provider:error")

C3_Witness ==
  \E i \in 1..Len(runs) :
    /\ Done(i) /\ runs[i].ret = "returned"
    /\ Has(runs[i].log, "resolver:ok")
    /\ \E t \in transcripts : t.id = i

\* storeTranscription of the run has returned: step 7 is reached
Stored(i) ==
  /\ Has(runs[i].log, "create") /\ ~Has(runs[i].log, "fail:duration")
  /\ runs[i].pc # "updateDuration"

Invoked(i) == Has(runs[i].log, "resolver:call")

\* C4 as stated: a run that has stored its transcript invokes the resolver
\* if and only if the resolver was constructed and more than one speaker tag
\* was counted; a run that does not invoke it ends with the status COMPLETED
\* written.
C4_ResolverGateAsStated ==
  \A i \in 1..Len(runs) :
    Stored(i) =>
      /\ Invoked(i) <=> (openaiKey /\ runs[i].result[1].speakerCount > 1)
      /\ Done(i) /\ ~Invoked(i) =>
           LastWrite(runs[i].log) = "write:COMPLETED" /\ runs[i].ret = "returned"

\* C4, amended: a run that has stored its transcript invokes the resolver
\* if and only if the resolver was constructed and more than one speaker tag
\* was counted; a run that does not invoke it goes from the store straight to
\* the COMPLETED status write, and ends with COMPLETED written and its result
\* returned unless that write fails, which it does only when the Recording
\* row is gone.
C4_ResolverGate ==
  \A i \in 1..Len(runs) :
    Stored(i) =>
      /\ Invoked(i) <=> (openaiKey /\ runs[i].result[1].speakerCount > 1)
      /\ ~Invoked(i) =>
           /\ ~Has(runs[i].log, "resolver:ok") /\ ~Has(runs[i].log, "resolver:fail")
           /\ runs[i].pc \in {"setCompleted", "setFailed", "done"}
           /\ runs[i].pc # "setCompleted" =>
                \/ /\ LastWrite(runs[i].log) = "write:COMPLETED"
                   /\ runs[i].ret = "returned"
                \/ /\ Has(runs[i].log, "fail:COMPLETED")
                   /\ ~RecExists(runs[i].rec)

C4_Witness ==
  \E i, j \in 1..Len(runs) :
    /\ Done(i) /\ Stored(i) /\ ~Invoked(i) /\ openaiKey
    /\ runs[i].result[1].speakerCount = 1 /\ runs[i].ret = "returned"
    /\ Done(j) /\ Stored(j) /\ Invoked(j) /\ runs[j].result[1].speakerCount = 2

\* the rows of the run's recording that carry a mapping have it from a call
\* that stored one: a reIdentifySpeakers call or another run's resolver call
MappingFromOther(i, t) ==
  \/ \E k \in 1..Len(idents) : idents[k].rec = runs[i].rec /\ idents[k].ret = "returned"
  \/ \E j \in 1..Len(runs) :
       j # i /\ runs[j].rec = runs[i].rec /\ Has(runs[j].log, "resolver:ok")

\* C5 as stated: when the resolver call made by a run fails, the run still
\* writes COMPLETED and returns its result, the Transcript row it created
\* remains, and the row's mapping stays unset with the resolved flag false.
C5_ResolverFailureAsStated ==
  \A i \in 1..Len(runs) :
    Done(i) /\ Has(runs[i].log, "resolver:fail") =>
      /\ LastWrite(runs[i].log) = "write:COMPLETED" /\ runs[i].ret = "returned"
      /\ \E t \in transcripts :
           t.id = i /\ t.speakerNames = <<>> /\ ~t.speakerIdentified

\* C5, amended: when the resolver call made by a run fails, the failure is
\* not propagated: the run goes on to the COMPLETED status write and, unless
\* that write fails because the Recording row is gone, ends with COMPLETED
\* written and its result returned; the failed call stores nothing, so the row
\* the run created, while no request has deleted it, has no mapping and the
\* resolved flag false unless another call has stored one.
C5_ResolverFailureSwallowed ==
  \A i \in 1..Len(runs) :
    Has(runs[i].log, "resolver:fail") =>
      /\ Stored(i) /\ Invoked(i) /\ ~Has(runs[i].log, "resolver:ok")
      /\ runs[i].pc \in {"setCompleted", "setFailed", "done"}
      /\ runs[i].pc # "setCompleted" =>
           \/ /\ LastWrite(runs[i].log) = "write:COMPLETED"
              /\ runs[i].ret = "returned" /\ Len(runs[i].result) = 1
           \/ /\ Has(runs[i].log, "fail:COMPLETED")
              /\ ~RecExists(runs[i].rec)
      /\ \A t \in transcripts :
           t.id = i /\ ~MappingFromOther(i, t) =>
             t.speakerNames = <<>> /\ ~t.speakerIdentified

C5_Witness ==
  \E i \in 1..Len(runs) :
    /\ Done(i) /\ Has(runs[i].log, "resolver:fail") /\ runs[i].ret = "returned"
    /\ StatusOf(runs[i].rec) = "COMPLETED"
    /\ \E t \in transcripts : t.id = i /\ t.speakerNames = <<>>

\* the place of a status in UPLOADING -> PROCESSING -> TRANSCRIBING -> COMPLETED
Rank(status) ==
  CASE status = "UPLOADING" -> 1
    [] status = "PROCESSING" -> 2
    [] status = "TRANSCRIBING" -> 3
    [] OTHER -> 4

Terminal == {"COMPLETED", "FAILED"}

\* the recording r is there before and after the step and its status differs
StatusChanged(r) ==
  RecExists(r) /\ RecExists(r)' /\ StatusOf(r)' # StatusOf(r)

\* C6 as stated: every change of a Recording's status goes forward in
\* UPLOADING -> PROCESSING -> TRANSCRIBING -> COMPLETED or enters FAILED, and
\* a status COMPLETED or FAILED never changes.
C6_LifecycleAsStated ==
  [][\A r \in RecIds :
       StatusChanged(r) =>
         /\ StatusOf(r) \notin Terminal
         /\ StatusOf(r)' = "FAILED" \/ Rank(StatusOf(r)') > Rank(StatusOf(r))]_vars

\* C6, amended: a Recording's status is changed only by the PROCESSING
\* write of the upload handler, by the TRANSCRIBING write with which every
\* transcribeAudio run begins, whatever the status then is (COMPLETED and
\* FAILED included), and by the COMPLETED or FAILED write with which a run
\* ends; delete-transcript and re-identify requests never change it, and no
\* other status is ever written.
C6_StatusWrites ==
  [][\A r \in RecIds :
       StatusChanged(r) =>
         \/ StatusOf(r)' = "PROCESSING" /\ r \in uploads /\ r \notin uploads'
         \/ \E i \in 1..Len(runs) :
              /\ runs[i].rec = r /\ runs'[i].log # runs[i].log
              /\ \/ runs[i].pc = "setTranscribing" /\ StatusOf(r)' = "TRANSCRIBING"
                 \/ /\ runs[i].pc = "setCompleted" /\ StatusOf(r)' = "COMPLETED"
                    /\ Has(runs[i].log, "write:TRANSCRIBING")
                 \/ runs[i].pc = "setFailed" /\ StatusOf(r)' = "FAILED"]_vars

\* a run started on a COMPLETED recording has taken it back to TRANSCRIBING
C6_Witness ==
  \E i, j \in 1..Len(runs) :
    /\ i < j /\ runs[i].rec = runs[j].rec
    /\ Done(i) /\ Has(runs[i].log, "write:COMPLETED")
    /\ runs[j].pc = "provider"
    /\ RecExists(runs[j].rec) /\ StatusOf(runs[j].rec) = "TRANSCRIBING"

\* C7: there is at most one Transcript row per Recording.
C7_OneTranscriptPerRecording ==
  \A r \in RecIds : Cardinality(TranscriptsOf(r)) <= 1

\* two runs for one recording have both reached the create; one was refused
C7_Witness ==
  \E i, j \in 1..Len(runs) :
    /\ i # j /\ runs[i].rec = runs[j].rec
    /\ Has(runs[i].log, "create") /\ Has(runs[j].log, "fail:create")
    /\ runs[j].error = <<"P2002", "transcript.create">>
    /\ Cardinality(TranscriptsOf(runs[i].rec)) = 1

\* C8: no run is started for a recording that has a Transcript row, and no
\* two runs for one recording are in flight together.
C8_NoDuplicateRuns ==
  /\ \A i \in 1..Len(runs) : ~runs[i].hadTranscript
  /\ \A i, j \in 1..Len(runs) :
       i # j /\ runs[i].rec = runs[j].rec => ~(InFlight(i) /\ InFlight(j))

(***************************************************************************)
(* Properties of the speaker mapping (SpecMap)                             *)
(***************************************************************************)
\* the step adds a call of the operation to the read-side calls
Reads(op) ==
  /\ Len(reads') = Len(reads) + 1
  /\ reads'[Len(reads')].op = op

LastRead == reads'[Len(reads')]

\* the names a mapping gives to a tag as a key of its own: none or one
OwnNames(mapping, tag) ==
  IF mapping.kind # "object" THEN {}
  ELSE {mapping.members[i][2] :
          i \in {j \in 1..Len(mapping.members) : mapping.members[j][1] = tag}}

\* the output has the length of the input; start, end and text are kept
SameTimesAndTexts(input, output) ==
  /\ Len(output) = Len(input)
  /\ \A i \in 1..Len(input) :
       /\ output[i].start = input[i].start /\ output[i].end = input[i].end
       /\ output[i].text = input[i].text

\* C14 as stated: applySpeakerNamesToSegments returns as many segments as
\* it is given, in order, with start, end and text unchanged; a segment whose
\* tag is a key of the stored mapping has the mapped name as speaker, a
\* segment whose tag is not a key keeps its tag; the stored rows are not
\* modified.
C14_NamesAppliedAsStated ==
  [][Reads("applySpeakerNamesToSegments") =>
       LET input == LastRead.input
           output == LastRead.segments
           mapping == ParsedNames(LastRead.stored)
       IN  /\ SameTimesAndTexts(input, output)
           /\ \A i \in 1..Len(input) :
                Truthy(input[i].speaker) =>
                  IF mapping # <<>> /\ OwnNames(mapping[1], input[i].speaker) # {}
                  THEN output[i].speaker \in OwnNames(mapping[1], input[i].speaker)
                  ELSE output[i].speaker = input[i].speaker
           /\ UNCHANGED <<transcripts, recordings>>]_vars

\* C14, amended: applySpeakerNamesToSegments returns as many segments as it
\* is given, in order, with start, end and text unchanged; the mapping it
\* applies is the one getSpeakerMapping answers, which is the stored mapping
\* whenever the read succeeds; when that answer is null every segment keeps
\* its tag; otherwise a segment whose tag is a key of the mapping with a
\* non-empty name has that name as speaker, and a segment whose tag is mapped
\* to the empty string, or is no property of the mapping object at all, keeps
\* its tag; the stored rows are not modified.
C14_NamesApplied ==
  [][Reads("applySpeakerNamesToSegments") =>
       LET input == LastRead.input
           output == LastRead.segments
           mapping == LastRead.value
       IN  /\ SameTimesAndTexts(input, output)
           /\ LastRead.ret = "returned" => mapping = ParsedNames(LastRead.stored)
           /\ \A i \in 1..Len(input) :
                LET tag == input[i].speaker
                    names == IF mapping = <<>> THEN {} ELSE OwnNames(mapping[1], tag)
                IN  Truthy(tag) =>
                      /\ mapping = <<>> => output[i].speaker = tag
                      /\ names \ {""} # {} => output[i].speaker \in names
                      /\ names = {""} \/ (names = {} /\ tag \notin InheritedKeys)
                           => output[i].speaker = tag
           /\ UNCHANGED <<transcripts, recordings>>]_vars

\* a call has named a segment whose tag is a key and kept the tag of one
\* whose tag is not
C14_Witness ==
  \E n \in 1..Len(reads) :
    /\ reads[n].op = "applySpeakerNamesToSegments" /\ reads[n].ret = "returned"
    /\ reads[n].input = StoredContent /\ reads[n].value # <<>>
    /\ reads[n].segments[1].speaker = "Jane Doe"
    /\ reads[n].segments[2].speaker = "Speaker B"

\* C15: whatever the stored mapping, applySpeakerNamesToSegments returns a
\* segment that has no speaker tag without a tag and without a name.
C15_TaglessStayTagless ==
  \A n \in 1..Len(reads) :
    reads[n].op = "applySpeakerNamesToSegments" =>
      \A i \in 1..Len(reads[n].input) :
        ~Truthy(reads[n].input[i].speaker) => reads[n].segments[i].speaker = None

\* the call k of identifySpeakers performs its store in this step
Stores(k) ==
  /\ k \in 1..Len(idents) /\ idents[k].pc = "store"
  /\ idents'[k].pc = "done" /\ idents'[k].ret = "returned"

\* the keys with their values
Members(mapping) == {mapping.members[i] : i \in 1..Len(mapping.members)}

\* C16: once identifySpeakers has stored a flat mapping M for a recording
\* that has a Transcript, a getSpeakerMapping that reads the row before any
\* other write returns an object with exactly the keys and values of M.
C16_RoundTrip ==
  [][\A k \in 1..Len(idents) :
       Stores(k) /\ idents[k].mapping[1].kind = "object" =>
         LET M == idents[k].mapping[1]
             got == SpeakerMappingOf(idents[k].rec, FALSE)'
         IN  /\ got # <<>> /\ got[1].kind = "object"
             /\ Members(got[1]) = Members(M)
             /\ Len(got[1].members) = Cardinality(Members(M))]_vars

\* a mapping of two names has been stored and read back
C16_Witness ==
  \E k \in 1..Len(idents), n \in 1..Len(reads) :
    /\ idents[k].ret = "returned" /\ idents[k].mapping[1].kind = "object"
    /\ Cardinality(Members(idents[k].mapping[1])) = 2
    /\ reads[n].op = "getSpeakerMapping" /\ reads[n].ret = "returned"
    /\ reads[n].stored = <<JsonStringify(idents[k].mapping[1])>>
    /\ reads[n].value # <<>>
    /\ Members(reads[n].value[1]) = Members(idents[k].mapping[1])

\* C17: when the answer of the language model is missing, empty or not a
\* flat JSON object of strings, identifySpeakers raises an error and the
\* stored mapping and the resolved flag stay as they were: only a flat object
\* is accepted for the store.
C17_MalformedRejected ==
  [][\A k \in 1..Len(idents) :
       idents[k].pc = "llm" /\ idents'[k] # idents[k] =>
         /\ idents'[k].pc = "store" => idents'[k].mapping[1].kind = "object"
         /\ idents'[k].pc = "done" =>
              idents'[k].ret = "raised" /\ transcripts' = transcripts]_vars

\* C18: a store of identifySpeakers replaces the stored mapping by the whole
\* mapping of the call and sets the resolved flag; nothing else changes the
\* stored mapping of a Transcript, so after two calls the mapping is that of
\* the call that stored last; a store of the mapping already stored changes
\* nothing.
C18_LastStoreWins ==
  [][\A r \in RecIds :
       /\ \A k \in 1..Len(idents) :
            Stores(k) /\ idents[k].rec = r =>
              /\ StoredNames(r)' = <<JsonStringify(idents[k].mapping[1])>>
              /\ \A t \in TranscriptsOf(r)' : t.speakerIdentified
              /\ StoredNames(r) = StoredNames(r)' /\ (\A t \in TranscriptsOf(r) :
                                                       t.speakerIdentified)
                   => transcripts' = transcripts
       /\ HasTranscript(r)' /\ StoredNames(r)' # StoredNames(r) =>
            \E k \in 1..Len(idents) : Stores(k) /\ idents[k].rec = r]_vars

\* two calls with different mappings have both stored; the call started
\* first stored last
C18_Witness ==
  /\ Len(idents) = 2 /\ idents[1].rec = idents[2].rec
  /\ idents[1].ret = "returned" /\ idents[2].ret = "returned"
  /\ idents[1].pc = "done" /\ idents[2].pc = "done"
  /\ idents[1].mapping # idents[2].mapping
  /\ StoredNames(idents[1].rec) = <<JsonStringify(idents[1].mapping[1])>>

\* C19 as stated: getTranscription returns null when the recording has no
\* Transcript; otherwise the speaker of each segment it returns is the one
\* applySpeakerNamesToSegments gives for the stored segments and mapping,
\* and a segment without a tag has neither tag nor name.
C19_OverlayAsStated ==
  \A n \in 1..Len(reads) :
    reads[n].op = "getTranscription" /\ reads[n].ret = "returned" /\ reads[n].found =>
      LET applied == WithNames(ParsedNames(reads[n].stored), reads[n].input)
      IN  /\ Len(reads[n].segments) = Len(applied)
          /\ \A i \in 1..Len(applied) :
               /\ reads[n].segments[i].speaker = applied[i].speaker
               /\ ~Truthy(reads[n].input[i].speaker) =>
                    /\ reads[n].segments[i].speaker = None
                    /\ reads[n].segments[i].speakerName = None

\* C19, amended: getTranscription returns null when the recording has no
\* Transcript; otherwise it returns the stored segments in order, each with
\* its start, end, text and speaker tag unchanged; when a mapping is stored,
\* each segment has in addition a speakerName: the mapped name when its tag
\* is a key of the mapping with a non-empty name, the tag itself when the tag
\* is mapped to the empty string or is no property of the mapping object, and
\* none for a segment without a tag, which is never looked up; with no mapping
\* stored no segment has a speakerName.
C19_Overlay ==
  [][Reads("getTranscription") /\ LastRead.ret = "returned" =>
       LET row == TranscriptsOf(LastRead.rec)
           names == ParsedNames(LastRead.stored)
           content == LastRead.input
           output == LastRead.segments
       IN  /\ LastRead.found = (row # {})
           /\ row # {} =>
                /\ \A t \in row : content = t.content /\ LastRead.stored = t.speakerNames
                /\ SameTimesAndTexts(content, output)
                /\ \A i \in 1..Len(content) :
                     LET tag == content[i].speaker
                         own == IF names = <<>> THEN {} ELSE OwnNames(names[1], tag)
                     IN  /\ output[i].speaker = tag
                         /\ names = <<>> \/ ~Truthy(tag) => output[i].speakerName = None
                         /\ names # <<>> /\ Truthy(tag) =>
                              /\ own \ {""} # {} => output[i].speakerName \in own
                              /\ own = {""} \/ (own = {} /\ tag \notin InheritedKeys)
                                   => output[i].speakerName = tag
           /\ UNCHANGED <<transcripts, recordings>>]_vars

\* a transcription has been returned with a named, an unnamed and a
\* tag-less segment, and one has been answered with null
C19_Witness ==
  \E n, m \in 1..Len(reads) :
    /\ reads[n].op = "getTranscription" /\ reads[n].found
    /\ reads[n].segments[1].speaker = "Speaker A"
    /\ reads[n].segments[1].speakerName = "Jane Doe"
    /\ reads[n].segments[2].speakerName = "Speaker B"
    /\ reads[n].segments[3].speakerName = None
    /\ reads[m].op = "getTranscription" /\ reads[m].ret = "returned"
    /\ ~reads[m].found

(***************************************************************************)
(* Properties of runs and reads together (SpecStore)                       *)
(***************************************************************************)
\* C20: a run whose Transcript create or Recording duration update fails
\* raises that error and writes no status after the failure, and a
\* getSpeakerMapping whose database read fails raises the error to its caller.
C20_PersistenceErrorPropagates ==
  /\ \A i \in 1..Len(runs) :
       Done(i) /\ (Has(runs[i].log, "fail:create") \/ Has(runs[i].log, "fail:duration")) =>
         /\ runs[i].ret = "raised" /\ runs[i].raised = runs[i].error
         /\ LastWrite(runs[i].log) = "write:TRANSCRIBING"
  /\ \A n \in 1..Len(reads) :
       reads[n].op = "getSpeakerMapping" => reads[n].ret # "caught"

(***************************************************************************)
(* Properties of the tables (Spec)                                         *)
(***************************************************************************)
\* C21: in every reachable state each Transcript row references an existing
\* Recording: deleting a Recording removes its Transcript, and a run in
\* flight while its Recording is deleted leaves no Transcript row behind.
C21_TranscriptHasRecording ==
  \A t \in transcripts : RecExists(t.recordingId)

\* a recording that had a Transcript is deleted, and a run that was in flight
\* during the delete has tried its create
C21_Witness ==
  \E i \in 1..Len(runs), j \in 1..Len(runs) :
    /\ ~RecExists(runs[i].rec) /\ runs[j].rec = runs[i].rec
    /\ Has(runs[i].log, "create")
    /\ Has(runs[j].log, "fail:create") /\ runs[j].error[1] = "P2003"

\* C22: deleteTranscription(recordingId) returns true and removes the
\* Transcript when one exists, after which getTranscription returns
\* not-found; it returns false and changes nothing when none exists; in
\* both cases the Recording row, its status included, is left unchanged.
C22_DeleteTranscription ==
  [][\A r \in RecIds :
       DeleteTranscription(r) =>
         /\ lastDelete'.rec = r /\ lastDelete'.ret = HasTranscript(r)
         /\ HasTranscript(r) =>
              /\ transcripts' = transcripts \ TranscriptsOf(r)
              /\ TranscriptsOf(r)' = {}
              /\ ~TranscriptionRead(r, FALSE)'.found
              /\ TranscriptionRead(r, FALSE)'.ret = "returned"
         /\ ~HasTranscript(r) => transcripts' = transcripts
         /\ recordings' = recordings]_vars

\* a delete of an existing Transcript has returned true, a getTranscription
\* after it has answered not-found, and the recording is still COMPLETED
C22_Witness ==
  /\ lastDelete = [rec |-> 1, ret |-> TRUE]
  /\ RecExists(1) /\ StatusOf(1) = "COMPLETED"
  /\ \E k \in 1..Len(reads) :
       reads[k].op = "getTranscription" /\ reads[k].ret = "returned" /\ ~reads[k].found

(***************************************************************************)
(* Properties of concurrent runs (Spec)                                    *)
(***************************************************************************)
\* the run has passed prisma.transcript.create, accepted or rejected
PastCreate(i) == Has(runs[i].log, "create") \/ Has(runs[i].log, "fail:create")

\* two runs of one recording that both got a transcript from the provider
\* and both passed the create, the recording being there and no Transcript
\* having been deleted
BothCreated(i, j) ==
  /\ i # j /\ runs[i].rec = runs[j].rec
  /\ PastCreate(i) /\ PastCreate(j)
  /\ RecExists(runs[i].rec) /\ lastDelete = NoDelete

C23_WitnessCompleted ==
  \E i \in 1..Len(runs), j \in 1..Len(runs) :
    /\ BothCreated(i, j) /\ Has(runs[i].log, "create")
    /\ Done(i) /\ Done(j)
    /\ StatusOf(runs[i].rec) = "COMPLETED" /\ HasTranscript(runs[i].rec)

\* C24: in every reachable state, whenever a Recording's status is COMPLETED
\* a Transcript row exists for that recording (over any sequence of upload,
\* transcribe, delete-transcript and re-identify operations).
C24_CompletedHasTranscript ==
  \A row \in recordings : row.status = "COMPLETED" => HasTranscript(row.id)

\* C24, amended: as long as no delete-transcript operation has been made, a
\* Recording whose status is COMPLETED has a Transcript row; a COMPLETED
\* Recording without one has had its Transcript deleted.
C24_CompletedHadTranscript ==
  \A row \in recordings :
    row.status = "COMPLETED" /\ ~HasTranscript(row.id) => lastDelete # NoDelete

\* a run has ended with COMPLETED, no Transcript was deleted, the row is there
C24_Witness ==
  \E i \in 1..Len(runs) :
    /\ Done(i) /\ runs[i].ret = "returned" /\ lastDelete = NoDelete
    /\ RecExists(runs[i].rec) /\ StatusOf(runs[i].rec) = "COMPLETED"
    /\ HasTranscript(runs[i].rec)

(***************************************************************************)
(* Properties of the stored Transcript (Spec)                              *)
(***************************************************************************)
\* C25: in every reachable state, for every Transcript row speakerIdentified
\* is true if and only if speakerNames is stored: both are unset at creation,
\* both are set by the same single write, and no operation sets one without
\* the other.
C25_FlagIffNames ==
  \A t \in transcripts : t.speakerIdentified <=> t.speakerNames # <<>>

\* a run has created a Transcript and its resolver call has stored a mapping
C25_Witness ==
  \E i \in 1..Len(runs), t \in transcripts :
    /\ t.id = i /\ Has(runs[i].log, "create") /\ Has(runs[i].log, "resolver:ok")
    /\ t.speakerIdentified /\ t.speakerNames # <<>>

\* the distinct non-empty speaker tags of a list of segments
DistinctTags(content) ==
  {content[n].speaker : n \in 1..Len(content)} \ {None, ""}

\* C28: in every reachable state each stored Transcript has speakerCount >= 1
\* and speakerCount = max(1, number of distinct non-empty speaker tags among
\* the segments stored in its content).
C28_SpeakerCountOfContent ==
  \A t \in transcripts :
    /\ t.speakerCount >= 1
    /\ t.speakerCount = IF Cardinality(DistinctTags(t.content)) > 1
                        THEN Cardinality(DistinctTags(t.content)) ELSE 1

\* a run has stored a Transcript whose segments have no tag, another state
\* has one with two tags: here the one without
C28_Witness ==
  \E i \in 1..Len(runs), t \in transcripts :
    /\ t.id = i /\ Has(runs[i].log, "create")
    /\ Len(t.content) >= 1 /\ DistinctTags(t.content) = {}
    /\ t.speakerCount = 1

(***************************************************************************)
(* Further properties of the normalizer (SpecNorm)                         *)
(***************************************************************************)
\* the texts of the segments one after the other, and with every token the
\* tag of the segment it is in
RECURSIVE SegmentTokens(_, _)
SegmentTokens(segments, i) ==
  IF i > Len(segments) THEN <<>>
  ELSE [n \in 1..Len(segments[i].text) |->
          <<segments[i].text[n], segments[i].speaker>>]
       \o SegmentTokens(segments, i + 1)

\* the texts of the words, and with every one the tag made of its speaker
WordTokens(words) ==
  [j \in 1..Len(words) |-> <<words[j].text, SpeakerTag(words[j].speaker)>>]

\* C26: in word-level mode the segments partition the input words: every
\* input word appears in exactly one output segment's text, in input order,
\* and that segment carries the speaker tag of that word (so every speaker
\* label present on some input word is the tag of at least one segment and
\* is counted in speakerCount).
C26_WordsPartitioned ==
  npc = "done" /\ ~resp.hasUtterances /\ resp.hasWords =>
    /\ SegmentTokens(segs, 1) = WordTokens(resp.words)
    /\ \A j \in 1..Len(resp.words) :
         Truthy(resp.words[j].speaker) =>
           \E i \in 1..Len(segs) : segs[i].speaker = SpeakerTag(resp.words[j].speaker)
    /\ SpeakerCount(segs) =
         Cardinality({resp.words[j].speaker : j \in {n \in 1..Len(resp.words) :
                                                      Truthy(resp.words[n].speaker)}})

(***************************************************************************)
(* Properties of the resolver's writes (SpecStore)                         *)
(***************************************************************************)
\* a step of identifySpeakers, called by transcribeAudio or through
\* reIdentifySpeakers
ResolverStep ==
  \/ \E r \in RecIds : ReIdentifyStart(r)
  \/ \E k \in 1..MaxCalls : IdentLlmRejects(k) \/ IdentLlmReturns(k) \/ IdentStore(k)
  \/ \E i \in 1..MaxCalls : LlmRejects(i) \/ LlmReturns(i) \/ StoreMapping(i)

\* a Transcript row without its speaker-mapping fields
WithoutMapping(t) ==
  [id |-> t.id, recordingId |-> t.recordingId, content |-> t.content,
   rawTranscript |-> t.rawTranscript, speakerCount |-> t.speakerCount,
   language |-> t.language]

\* the prompt of the segments names a speaker the segments do not have
Synthesized(content) ==
  \E n \in 1..Len(content) :
    n <= PromptCap /\ PrepareSpeakerSegments(content)[n].speaker # content[n].speaker

\* C27: identifySpeakers and reIdentifySpeakers change only the Transcript's
\* speaker-mapping fields (speakerNames, speakerIdentified): the stored
\* segment list, raw text, speakerCount and language, and the Recording's
\* status, are unchanged, and the labels 'Speaker A'..'Speaker J' the prompt
\* gives to tag-less segments are never written into stored segments.
C27_ResolverWritesMappingOnly ==
  [][ResolverStep =>
       /\ recordings' = recordings
       /\ {WithoutMapping(t) : t \in transcripts'} =
            {WithoutMapping(t) : t \in transcripts}
       /\ \A t \in transcripts, u \in transcripts' :
            t.id = u.id =>
              \A n \in 1..Len(t.content) :
                ~Truthy(t.content[n].speaker) => ~Truthy(u.content[n].speaker)]_vars

\* a reIdentifySpeakers call whose prompt had a synthesized label has stored
\* its mapping, and the stored segments still have a tag-less segment
C27_Witness ==
  \E k \in 1..Len(idents), t \in transcripts :
    /\ idents[k].ret = "returned" /\ t.recordingId = idents[k].rec
    /\ t.speakerIdentified
    /\ Synthesized(t.content)
    /\ \E n \in 1..Len(idents[k].prompt) :
         idents[k].prompt[n].speaker = "Speaker C" /\ t.content[n].speaker = None

(***************************************************************************)
(* Properties of the scheduling of runs (SpecLive)                         *)
(***************************************************************************)
Started(i) == i <= Len(runs)

\* the run waits for the provider or for the language model
Waiting(i) == Started(i) /\ runs[i].pc \in {"provider", "llm"}

\* every run of the recording waits, and the recording is there
AllWaiting(r) ==
  /\ RecExists(r)
  /\ \E i \in 1..Len(runs) : runs[i].rec = r
  /\ \A i \in 1..Len(runs) : runs[i].rec = r => Waiting(i)

\* the run has ended and the last status it wrote is COMPLETED or FAILED,
\* or its write of FAILED was rejected
Ended(i) ==
  /\ Started(i) /\ Done(i)
  /\ \/ LastWrite(runs[i].log) = "write:COMPLETED" /\ runs[i].ret = "returned"
     \/ LastWrite(runs[i].log) = "write:FAILED" /\ runs[i].ret = "raised"
     \/ Has(runs[i].log, "fail:FAILED") /\ runs[i].ret = "raised"

AnswersOnly(r, status, error) ==
  /\ Len(reads') = Len(reads) + 1
  /\ reads'[Len(reads')].op = "transcribe" /\ reads'[Len(reads')].rec = r
  /\ reads'[Len(reads')].answer[1].status = status
  /\ reads'[Len(reads')].answer[1].error = error
  /\ UNCHANGED <<recordings, transcripts, files, runs, idents>>

\* C30: a transcribe trigger (POST /upload/:id/transcribe) for a recording id
\* that does not exist is answered with HTTP 404 'Recording not found',
\* starts no transcribeAudio run and changes no stored state; a trigger for a
\* recording that already has a Transcript is rejected with 'Transcription
\* already exists' and likewise starts no run.
C30_TriggerRejections ==
  [][\A r \in RecIds :
       /\ TriggerGetRecording(r) /\ ~RecExists(r) =>
            AnswersOnly(r, 404, "Recording not found")
       /\ TriggerTranscribe(r) /\ HasTranscript(r) =>
            AnswersOnly(r, 400, "Transcription already exists")]_vars
====
